---- MODULE Spec2Model ----
(***************************************************************************)
(* async-sqlite: a Client is a handle (crossbeam Sender) on the command    *)
(* queue of one worker thread that owns one rusqlite Connection; a Pool is *)
(* a vector of Clients with a round-robin counter.                         *)
(*                                                                         *)
(* Channel semantics used (crossbeam-channel unbounded, oneshot/bounded(1) *)
(* reply channels): send on a queue whose Receiver is dropped fails;       *)
(* dropping the Receiver discards the queued commands, which drops the     *)
(* reply senders they capture, so the waiting callers see Canceled /       *)
(* RecvError.                                                              *)
(***************************************************************************)
EXTENDS Integers, Sequences, FiniteSets, TLC

\* ---------------------------------------------------------------- bounds
NumCallers == 2
MaxConns == 2
MaxOps == 4
MaxPoolOps == 3

Callers == 1..NumCallers
Actors == 1..MaxConns

VARIABLES
    cfg,        \* what was built: [kind, n, blocking]
    open,       \* the open call: [pc, idx, res]
    actor,      \* per actor thread: position in Client::open's closure
    running,    \* per actor: the commands dequeued and not yet finished
    conn,       \* per actor: the rusqlite Connection it owns
    queue,      \* per actor: conn_tx/conn_rx, the unbounded command queue
    handle,     \* per actor: the Client { conn_tx } handed to the opener
    openReply,  \* per actor: what func(res) of Client::open delivered
    openSent,   \* per actor: how many times func(res) was called
    ops,        \* every command ever submitted, by id (submission order)
    execLog,    \* per actor: start/end events of the commands it ran
    caller,     \* per caller task/thread: position in its current call
    counter,    \* State.counter of the pool
    calls,      \* number of commands the calls started so far may submit
    pcloses,    \* finished Pool::close / close_blocking calls
    eachs,      \* finished Pool::conn_for_each calls
    journal,    \* [mode, out]: the builder's journal_mode, and per actor
                \* the mode its connection reported to the pragma update
    closed      \* [ok, any]: has a close call returned Ok / returned at all

vars == <<cfg, open, actor, running, conn, queue, handle, openReply, openSent,
          ops, execLog, caller, counter, calls, pcloses, eachs, journal, closed>>

\* ------------------------------------------------------------ values
NoReply == [tag |-> "None", v |-> 0]
Canceled == [tag |-> "Canceled", v |-> 0]
OkUnit == [tag |-> "Ok", v |-> 0]
\* The call was abandoned: its future was dropped before it completed
Abandoned == [tag |-> "Abandoned", v |-> 0]
NoResult == [tag |-> "None", v |-> 0]
ErrClosed == [tag |-> "Closed", v |-> 0]

\* error.rs: the three conversions into Error::Closed
FromSendError == ErrClosed
FromRecvError == ErrClosed
FromCanceled == ErrClosed

\* error.rs: rusqlite::Error -> Error::Rusqlite
FromRusqlite(e) == [tag |-> "Rusqlite", v |-> e]

IdleCaller == [pc |-> "idle", op |-> 0, tgt |-> 0, idx |-> 0,
               cops |-> <<>>, aOk |-> FALSE, aAny |-> FALSE]

\* The outcomes the rusqlite calls of Client::create_conn can have
\* (Connection::open_with_flags.., pragma_update_and_check).
CreateOutcomes == {"Ok", "Err"}

\* ------------------------------------------------------------ journal mode
\* ClientBuilder.journal_mode is None unless journal_mode(m) was called
NoJournal == "None"
\* No pragma update ran on the connection
NoOut == <<>>

\* JournalMode::as_str; strings are sequences of characters
AsStr(m) ==
    CASE m = "Delete" -> <<"D", "E", "L", "E", "T", "E">>
      [] m = "Truncate" -> <<"T", "R", "U", "N", "C", "A", "T", "E">>
      [] m = "Persist" -> <<"P", "E", "R", "S", "I", "S", "T">>
      [] m = "Memory" -> <<"M", "E", "M", "O", "R", "Y">>
      [] m = "Wal" -> <<"W", "A", "L">>
      [] m = "Off" -> <<"O", "F", "F">>

\* What "PRAGMA journal_mode = .." returns for a database in mode m: the
\* name of the mode in lower case
SqliteName(m) ==
    CASE m = "Delete" -> <<"d", "e", "l", "e", "t", "e">>
      [] m = "Truncate" -> <<"t", "r", "u", "n", "c", "a", "t", "e">>
      [] m = "Persist" -> <<"p", "e", "r", "s", "i", "s", "t">>
      [] m = "Memory" -> <<"m", "e", "m", "o", "r", "y">>
      [] m = "Wal" -> <<"w", "a", "l">>
      [] m = "Off" -> <<"o", "f", "f">>

\* The journal modes the builder is given, and the modes the database may
\* be in after the pragma update (an in-memory database stays in "memory",
\* a database that cannot use WAL keeps "delete")
JournalInputs == {"Wal", "Memory"}
DbModes == {"Wal", "Memory", "Delete"}

UpperAscii == <<"A", "B", "C", "D", "E", "F", "G", "H", "I", "J", "K", "L", "M",
                "N", "O", "P", "Q", "R", "S", "T", "U", "V", "W", "X", "Y", "Z">>
LowerAscii == <<"a", "b", "c", "d", "e", "f", "g", "h", "i", "j", "k", "l", "m",
                "n", "o", "p", "q", "r", "s", "t", "u", "v", "w", "x", "y", "z">>

\* u8::to_ascii_lowercase
ToAsciiLowercase(ch) ==
    IF \E i \in DOMAIN UpperAscii : UpperAscii[i] = ch
    THEN LowerAscii[CHOOSE i \in DOMAIN UpperAscii : UpperAscii[i] = ch]
    ELSE ch

\* str::eq_ignore_ascii_case
EqExactCase(a, b) == a = b
EqIgnoreAsciiCase(a, b) ==
    /\ Len(a) = Len(b)
    /\ \A i \in 1..Len(a) : ToAsciiLowercase(a[i]) = ToAsciiLowercase(b[i])

\* error.rs: Error::PragmaUpdate { name, exp, got }, as the Err of actor c
PragmaUpdate(c, exp, got) ==
    [tag |-> "Err", v |-> c,
     pragma |-> [name |-> "journal_mode", exp |-> exp, got |-> got]]

IsPragmaUpdate(r) == "pragma" \in DOMAIN r

\* Client::create_conn: r is the outcome of the rusqlite calls, mode the
\* builder's journal_mode and out the string the pragma update returned
CreateConn(c, r, mode, out) ==
    IF r = "Err" THEN [tag |-> "Err", v |-> c]
    ELSE IF mode = NoJournal THEN OkUnit
    ELSE IF ~EqIgnoreAsciiCase(out, AsStr(mode))
         THEN PragmaUpdate(c, AsStr(mode), out)
         ELSE OkUnit

\* ------------------------------------------------------------ Init
InitState ==
    /\ cfg \in {[kind |-> "Client", n |-> 1, blocking |-> b] : b \in BOOLEAN}
               \cup {[kind |-> "Pool", n |-> n, blocking |-> b] :
                        n \in 0..MaxConns, b \in BOOLEAN}
    /\ open = [pc |-> "spawn", idx |-> 1, res |-> NoResult]
    /\ actor = [c \in Actors |-> "unspawned"]
    /\ running = [c \in Actors |-> {}]
    /\ conn = [c \in Actors |-> "none"]
    /\ queue = [c \in Actors |-> <<>>]
    /\ handle = [c \in Actors |-> "none"]
    /\ openReply = [c \in Actors |-> NoReply]
    /\ openSent = [c \in Actors |-> 0]
    /\ ops = <<>>
    /\ execLog = [c \in Actors |-> <<>>]
    /\ caller = [k \in Callers |-> IdleCaller]
    /\ counter = 0
    /\ calls = 0
    /\ pcloses = <<>>
    /\ eachs = <<>>
    /\ closed = [ok |-> FALSE, any |-> FALSE]

\* ClientBuilder::default(): no journal mode is set
Init ==
    /\ InitState
    /\ journal = [mode |-> NoJournal, out |-> [c \in Actors |-> NoOut]]

\* ------------------------------------------------------------ opening
\* ClientBuilder::open / open_blocking and PoolBuilder::open / open_blocking.
\* A Client is an actor count of 1. The async variant spawns every actor
\* thread on the first poll of join_all and then waits for all of them; the
\* blocking variant spawns and waits one after the other.

\* (0..num_conns).map(..): the number of Client opens a build of n
\* connections starts
NumOpensMax(n) == MaxConns
NumOpens(n) == n

\* thread::spawn of Client::open, for the next index
OpenSpawn ==
    /\ open.pc = "spawn"
    /\ open.idx <= NumOpens(cfg.n)
    /\ actor' = [actor EXCEPT ![open.idx] = "creating"]
    /\ open' = IF cfg.blocking THEN [open EXCEPT !.pc = "wait"]
                               ELSE [open EXCEPT !.idx = @ + 1]
    /\ UNCHANGED <<cfg, running, conn, queue, handle, openReply, openSent, ops,
                   execLog, caller, counter, calls, pcloses, eachs, journal, closed>>

\* Dropping the Clients collected so far when the open returns an error.
DropHandlesLeak(upTo) == handle
DropHandles(upTo) ==
    [c \in Actors |-> IF c <= upTo /\ handle[c] = "live" THEN "dropped"
                      ELSE handle[c]]

\* conn_rx.recv()? of Client::open_blocking, and the `?` of the collect in
\* PoolBuilder::open_blocking, which stops at the first error
OpenRecvBlocking ==
    /\ open.pc = "wait"
    /\ openReply[open.idx] # NoReply
    /\ IF openReply[open.idx].tag = "Err"
       THEN /\ open' = [open EXCEPT !.pc = "failed", !.res = openReply[open.idx]]
            /\ handle' = DropHandles(open.idx)
       ELSE /\ open' = [open EXCEPT !.pc = "spawn", !.idx = @ + 1]
            /\ UNCHANGED handle
    /\ UNCHANGED <<cfg, actor, running, conn, queue, openReply, openSent, ops,
                   execLog, caller, counter, calls, pcloses, eachs, journal, closed>>

\* The first error among the per-actor results, in index order
FirstErr(res, n) ==
    IF \E i \in 1..n : res[i].tag # "Ok"
    THEN res[CHOOSE i \in 1..n : /\ res[i].tag # "Ok"
                                 /\ \A j \in 1..(i - 1) : res[j].tag = "Ok"]
    ELSE OkUnit

\* join_all(opens).await ... collect::<Result<Vec<Client>, Error>>()?, and the
\* end of the blocking iteration: the Pool (or Client) is returned, or the
\* first error is and every Client that did open is dropped.
OpenFinish ==
    /\ open.pc = "spawn"
    /\ open.idx > cfg.n
    /\ \A c \in 1..cfg.n : openReply[c] # NoReply
    /\ LET r == FirstErr(openReply, cfg.n) IN
       IF r.tag = "Ok"
       THEN /\ open' = [open EXCEPT !.pc = "ok", !.res = OkUnit]
            /\ UNCHANGED handle
       ELSE /\ open' = [open EXCEPT !.pc = "failed", !.res = r]
            /\ handle' = DropHandles(cfg.n)
    /\ UNCHANGED <<cfg, actor, running, conn, queue, openReply, openSent, ops,
                   execLog, caller, counter, calls, pcloses, eachs, journal, closed>>

\* ------------------------------------------------------------ the actor
\* conn_rx lives from the start of the thread's closure to its return.
RxAlive(c) == actor[c] \in {"creating", "loop", "returning"}

\* Where the thread goes after func(Err(err)) of a failed create_conn.
AfterCreateErrLoop == "loop"
AfterCreateErr == "returning"

\* Whether func(res) is called with a Client on a failed create_conn.
ExposeOnCreateErr == "none"

\* Client::open, thread body up to the command loop: create_conn, then
\* func(Ok(client)) or func(Err(err)); return
ActorCreate(c) ==
    /\ actor[c] = "creating"
    /\ \E r \in CreateOutcomes :
       \E out \in IF journal.mode = NoJournal \/ r = "Err" THEN {NoOut}
                  ELSE {SqliteName(m) : m \in DbModes} :
         LET res == CreateConn(c, r, journal.mode, out) IN
         IF res.tag = "Ok"
         THEN /\ conn' = [conn EXCEPT ![c] = "open"]
              /\ journal' = [journal EXCEPT !.out[c] = out]
              /\ handle' = [handle EXCEPT ![c] = "live"]
              /\ openReply' = [openReply EXCEPT ![c] = OkUnit]
              /\ actor' = [actor EXCEPT ![c] = "loop"]
         ELSE /\ conn' = conn
              /\ journal' = journal
              /\ handle' = [handle EXCEPT ![c] = ExposeOnCreateErr]
              /\ openReply' = [openReply EXCEPT ![c] = res]
              /\ actor' = [actor EXCEPT ![c] = AfterCreateErr]
    /\ openSent' = [openSent EXCEPT ![c] = @ + 1]
    /\ UNCHANGED <<cfg, open, running, queue, ops, execLog, caller, counter,
                   calls, pcloses, eachs, closed>>

\* The loop is sequential: recv() is called only when the previous command
\* has returned.
RecvReadyAnytime(c) == actor[c] = "loop" /\ queue[c] # <<>>
RecvReady(c) == actor[c] = "loop" /\ running[c] = {} /\ queue[c] # <<>>

\* crossbeam unbounded channel: recv takes the oldest message
PopCmdNewest(q) == [cmd |-> q[Len(q)], rest |-> SubSeq(q, 1, Len(q) - 1)]
PopCmd(q) == [cmd |-> Head(q), rest |-> Tail(q)]

\* while let Ok(cmd) = conn_rx.recv(): a command is dequeued and started
ActorRecv(c) ==
    /\ RecvReady(c)
    /\ LET p == PopCmd(queue[c]) IN
       /\ queue' = [queue EXCEPT ![c] = p.rest]
       /\ running' = [running EXCEPT ![c] = @ \cup {p.cmd}]
       /\ ops' = [ops EXCEPT ![p.cmd].st = "running"]
       /\ execLog' = [execLog EXCEPT ![c] = Append(@, [ev |-> "start", id |-> p.cmd])]
    /\ UNCHANGED <<cfg, open, actor, conn, handle, openReply, openSent, caller,
                   counter, calls, pcloses, eachs, journal, closed>>

\* What the boxed closure of conn / conn_mut sends on tx: func(conn)
FuncReply(id) == [tag |-> ops[id].val, v |-> id]

\* Where the thread goes after func(&mut conn) has returned, whatever the
\* closure's result was: the match arm ends and the loop goes on.
AfterFuncCrashOnErr(val) == IF val = "Err" THEN "returning" ELSE "loop"
AfterFunc(val) == "loop"

\* Command::Func(func) => func(&mut conn)
ActorFinishFunc(c) ==
    /\ \E id \in running[c] :
         /\ ops[id].kind = "Func"
         /\ ops' = [ops EXCEPT ![id].st = "executed", ![id].reply = FuncReply(id)]
         /\ running' = [running EXCEPT ![c] = @ \ {id}]
         /\ execLog' = [execLog EXCEPT ![c] = Append(@, [ev |-> "end", id |-> id])]
         /\ actor' = [actor EXCEPT ![c] = AfterFunc(ops[id].val)]
    /\ UNCHANGED <<cfg, open, conn, queue, handle, openReply, openSent,
                   caller, counter, calls, pcloses, eachs, journal, closed>>

\* Where the thread goes after a successful / a failed conn.close().
AfterShutdownOkLoop == "loop"
AfterShutdownOk == "returning"
AfterShutdownErrReturn == "returning"
AfterShutdownErr == "loop"

\* The connection after Err((c, e)) => conn = c
ConnAfterCloseErr == "open"

\* Command::Shutdown(func) => match conn.close()
ActorFinishShutdown(c) ==
    /\ \E id \in running[c] :
         /\ ops[id].kind = "Shutdown"
         /\ \E ok \in BOOLEAN :
              IF ok
              THEN /\ conn' = [conn EXCEPT ![c] = "closed"]
                   /\ ops' = [ops EXCEPT ![id].st = "executed", ![id].reply = OkUnit]
                   /\ actor' = [actor EXCEPT ![c] = AfterShutdownOk]
              ELSE /\ conn' = [conn EXCEPT ![c] = ConnAfterCloseErr]
                   /\ ops' = [ops EXCEPT ![id].st = "executed",
                                         ![id].reply = [tag |-> "Err", v |-> c]]
                   /\ actor' = [actor EXCEPT ![c] = AfterShutdownErr]
         /\ running' = [running EXCEPT ![c] = @ \ {id}]
         /\ execLog' = [execLog EXCEPT ![c] = Append(@, [ev |-> "end", id |-> id])]
    /\ UNCHANGED <<cfg, open, queue, handle, openReply, openSent, caller,
                   counter, calls, pcloses, eachs, journal, closed>>

\* The reply a waiting caller sees when its command is discarded unrun: the
\* reply sender captured by the command is dropped with it.
DiscardedReplyKept == NoReply
DiscardedReply == Canceled

\* The thread's closure returns: conn_rx is dropped, which disconnects the
\* queue and discards what is still in it.
ActorExit(c) ==
    /\ actor[c] = "returning"
    /\ actor' = [actor EXCEPT ![c] = "exited"]
    /\ queue' = [queue EXCEPT ![c] = <<>>]
    /\ ops' = [i \in DOMAIN ops |->
                 IF ops[i].actor = c /\ ops[i].st = "queued"
                 THEN [ops[i] EXCEPT !.st = "dropped", !.reply = DiscardedReply]
                 ELSE ops[i]]
    /\ UNCHANGED <<cfg, open, running, conn, handle, openReply, openSent,
                   execLog, caller, counter, calls, pcloses, eachs, journal, closed>>

\* crossbeam Receiver::recv fails only when the queue is empty and every
\* Sender is dropped; until then it returns the queued commands.
DisconnectedEarly(c) == handle[c] = "dropped"
Disconnected(c) == queue[c] = <<>> /\ handle[c] = "dropped"

\* conn_rx.recv() returns Err when the queue is empty and every Sender is
\* dropped: the loop ends and the thread returns (the Connection is dropped).
ActorDisconnect(c) ==
    /\ actor[c] = "loop"
    /\ running[c] = {}
    /\ Disconnected(c)
    /\ actor' = [actor EXCEPT ![c] = "exited"]
    /\ conn' = [conn EXCEPT ![c] = "dropped"]
    /\ UNCHANGED <<cfg, open, running, queue, handle, openReply, openSent, ops,
                   execLog, caller, counter, calls, pcloses, eachs, journal, closed>>

\* ------------------------------------------------------------ callers
\* Idle callers are interchangeable: a new call is made by the first of them.
\* A call that submits up to cost commands is started while the total stays
\* within the bound.
Budget == IF cfg.kind = "Client" THEN MaxOps ELSE MaxPoolOps

CanCall(k, cost) ==
    /\ open.pc = "ok"
    /\ caller[k].pc = "idle"
    /\ \A j \in 1..(k - 1) : caller[j].pc # "idle"
    /\ calls + cost <= Budget
    /\ calls' = calls + cost

NewOp(k, c, kind, val, aOk, aAny) ==
    [caller |-> k, actor |-> c, kind |-> kind, val |-> val, st |-> "queued",
     reply |-> NoReply, result |-> NoResult, aOk |-> aOk, aAny |-> aAny]

\* crossbeam Sender::send succeeds while the Receiver exists
SendOkAlways(c) == TRUE
SendOk(c) == RxAlive(c)

\* Ok(rx.await??) / Ok(rx.recv()??) of conn, conn_mut and their blocking
\* variants: a dropped reply sender is Error::Closed, the closure's error is
\* Error::Rusqlite, its value is passed through.
ConnResultClosed(reply, blk) == ErrClosed
ConnResult(reply, blk) ==
    IF reply.tag = "Canceled"
    THEN (IF blk THEN FromRecvError ELSE FromCanceled)
    ELSE IF reply.tag = "Err" THEN FromRusqlite(reply.v)
    ELSE [tag |-> "Ok", v |-> reply.v]

\* rx.await.unwrap_or(Ok(())) / rx.recv().unwrap_or(Ok(())) of close
CloseResult(reply) ==
    IF reply.tag = "Canceled" THEN OkUnit
    ELSE IF reply.tag = "Err" THEN FromRusqlite(reply.v)
    ELSE OkUnit

\* conn / conn_mut / conn_blocking / conn_mut_blocking up to the send:
\* self.conn_tx.send(Command::Func(..))?
SendFunc(k, c, val, aOk, aAny) ==
    LET id == Len(ops) + 1
        op == NewOp(k, c, "Func", val, aOk, aAny) IN
    IF SendOk(c)
    THEN /\ ops' = Append(ops, op)
         /\ queue' = [queue EXCEPT ![c] = Append(@, id)]
         /\ caller' = [caller EXCEPT ![k] =
                          [IdleCaller EXCEPT !.pc = "wait", !.op = id]]
    ELSE /\ ops' = Append(ops, [op EXCEPT !.st = "unsent", !.result = FromSendError])
         /\ queue' = queue
         /\ caller' = [caller EXCEPT ![k] = IdleCaller]

\* Client::conn and its variants, called on a Client or a clone of it
ClientConn(k) ==
    /\ cfg.kind = "Client"
    /\ handle[1] = "live"
    /\ CanCall(k, 1)
    /\ \E val \in {"Ok", "Err"} :
         SendFunc(k, 1, val, closed.ok, closed.any)
    /\ UNCHANGED <<cfg, open, actor, running, conn, handle, openReply, openSent,
                   execLog, counter, pcloses, eachs, journal, closed>>

\* Pool::get: fetch_add on the counter, then index n % clients.len()
PoolIndexFirst(n, len) == 1
PoolIndex(n, len) == (n % len) + 1

\* Pool::conn and its variants, first half: self.get()
PoolGet(k) ==
    /\ cfg.kind = "Pool"
    /\ CanCall(k, 1)
    /\ counter' = counter + 1
    /\ caller' = [caller EXCEPT ![k] =
            IF cfg.n = 0
            THEN [IdleCaller EXCEPT !.pc = "panicked"]
            ELSE [IdleCaller EXCEPT !.pc = "send",
                                    !.tgt = PoolIndex(counter, cfg.n),
                                    !.aOk = closed.ok, !.aAny = closed.any]]
    /\ UNCHANGED <<cfg, open, actor, running, conn, queue, handle, openReply,
                   openSent, ops, execLog, pcloses, eachs, journal, closed>>

\* Pool::conn and its variants, second half: the Client call on the chosen
\* client
PoolSend(k) ==
    /\ caller[k].pc = "send"
    /\ \E val \in {"Ok", "Err"} :
         SendFunc(k, caller[k].tgt, val, caller[k].aOk, caller[k].aAny)
    /\ UNCHANGED <<cfg, open, actor, running, conn, handle, openReply, openSent,
                   execLog, counter, calls, pcloses, eachs, journal, closed>>

\* rx.await / rx.recv() returns once the reply was sent or its sender dropped
ReplyReadyAlways(id) == TRUE
ReplyReady(id) == ops[id].reply # NoReply

\* The caller's rx.await / rx.recv() completes (conn and Client::close)
CallerRecv(k) ==
    /\ caller[k].pc = "wait"
    /\ LET id == caller[k].op
           isClose == ops[id].kind = "Shutdown"
           res == IF isClose THEN CloseResult(ops[id].reply)
                  ELSE ConnResult(ops[id].reply, cfg.blocking) IN
       /\ ReplyReady(id)
       /\ ops' = [ops EXCEPT ![id].result = res]
       /\ closed' = IF isClose
                    THEN [ok |-> closed.ok \/ res.tag = "Ok", any |-> TRUE]
                    ELSE closed
    /\ caller' = [caller EXCEPT ![k] = IdleCaller]
    /\ UNCHANGED <<cfg, open, actor, running, conn, queue, handle, openReply,
                   openSent, execLog, counter, calls, pcloses, eachs, journal>>

\* Client::close / close_blocking up to the send; a failed send returns Ok(())
ClientClose(k) ==
    /\ cfg.kind = "Client"
    /\ handle[1] = "live"
    /\ CanCall(k, 1)
    /\ LET id == Len(ops) + 1
           op == NewOp(k, 1, "Shutdown", "Ok", closed.ok, closed.any) IN
         IF SendOk(1)
         THEN /\ ops' = Append(ops, op)
              /\ queue' = [queue EXCEPT ![1] = Append(@, id)]
              /\ caller' = [caller EXCEPT ![k] =
                     [IdleCaller EXCEPT !.pc = "wait", !.op = id]]
              /\ closed' = closed
         ELSE /\ ops' = Append(ops, [op EXCEPT !.st = "unsent", !.result = OkUnit])
              /\ queue' = queue
              /\ caller' = [caller EXCEPT ![k] = IdleCaller]
              /\ closed' = [ok |-> TRUE, any |-> TRUE]
    /\ UNCHANGED <<cfg, open, actor, running, conn, handle, openReply, openSent,
                   execLog, counter, pcloses, eachs, journal>>

\* ------------------------------------------------------------ pool close
\* client.clone().close() / close_blocking() up to the send, inside a pool
\* close: the Shutdown is appended to client c's queue, or the send fails
SendShutdown(k, c) ==
    LET id == Len(ops) + 1
        op == NewOp(k, c, "Shutdown", "Ok", closed.ok, closed.any) IN
    /\ IF SendOk(c)
       THEN /\ ops' = Append(ops, op)
            /\ queue' = [queue EXCEPT ![c] = Append(@, id)]
       ELSE /\ ops' = Append(ops, [op EXCEPT !.st = "unsent", !.result = OkUnit])
            /\ queue' = queue
    /\ caller' = [caller EXCEPT ![k].cops = Append(@, id),
                                ![k].idx = IF caller[k].pc = "pclose" THEN @ + 1 ELSE @]

\* The per-client result of a close whose Shutdown is command id
ClientCloseResult(id) ==
    IF ops[id].st = "unsent" THEN OkUnit ELSE CloseResult(ops[id].reply)

CloseAnswered(id) == ops[id].st = "unsent" \/ ReplyReady(id)

\* A pool close call returns res to caller k
PoolCloseReturn(k, res) ==
    /\ pcloses' = Append(pcloses, [caller |-> k, blk |-> caller[k].pc = "pcloseB",
                                   res |-> res, issued |-> caller[k].cops])
    /\ eachs' = eachs
    /\ journal' = journal
    /\ closed' = [ok |-> closed.ok \/ res.tag = "Ok", any |-> TRUE]
    /\ caller' = [caller EXCEPT ![k] = IdleCaller]

\* .into_iter().collect::<Result<(), Error>>() of Pool::close
PoolCloseCollectLast(rs, n) == IF n = 0 THEN OkUnit ELSE rs[n]
PoolCloseCollect(rs, n) == FirstErr(rs, n)

\* Pool::close(self) is called by an async program, Pool::close_blocking by
\* a blocking one
PoolCloseStart(k) ==
    /\ cfg.kind = "Pool"
    /\ CanCall(k, IF cfg.n = 0 THEN 1 ELSE cfg.n)
    /\ caller' = [caller EXCEPT ![k] =
            [IdleCaller EXCEPT !.pc = IF cfg.blocking THEN "pcloseB" ELSE "pclose",
                               !.idx = 1]]
    /\ UNCHANGED <<cfg, open, actor, running, conn, queue, handle, openReply,
                   openSent, ops, execLog, counter, pcloses, eachs, journal, closed>>

\* Pool::close: join_all polls the close future of each client in index
\* order; each sends its Shutdown on its first poll
PoolCloseSend(k) ==
    /\ caller[k].pc = "pclose"
    /\ caller[k].idx <= cfg.n
    /\ SendShutdown(k, caller[k].idx)
    /\ UNCHANGED <<cfg, open, actor, running, conn, handle, openReply, openSent,
                   execLog, counter, calls, pcloses, eachs, journal, closed>>

\* Pool::close: join_all(futures).await.into_iter().collect::<Result<(), Error>>()
PoolCloseJoin(k) ==
    /\ caller[k].pc = "pclose"
    /\ caller[k].idx > cfg.n
    /\ \A i \in 1..cfg.n : CloseAnswered(caller[k].cops[i])
    /\ LET rs == [i \in 1..cfg.n |-> ClientCloseResult(caller[k].cops[i])] IN
       /\ PoolCloseReturn(k, PoolCloseCollect(rs, cfg.n))
       /\ ops' = [id \in DOMAIN ops |->
                    IF \E i \in 1..cfg.n : caller[k].cops[i] = id
                    THEN [ops[id] EXCEPT !.result = ClientCloseResult(id)]
                    ELSE ops[id]]
    /\ UNCHANGED <<cfg, open, actor, running, conn, queue, handle, openReply,
                   openSent, execLog, counter, calls>>

\* Pool::close_blocking: try_for_each calls close_blocking on the next client
PoolCloseBlockingSend(k) ==
    /\ caller[k].pc = "pcloseB"
    /\ caller[k].idx <= cfg.n
    /\ Len(caller[k].cops) < caller[k].idx
    /\ SendShutdown(k, caller[k].idx)
    /\ UNCHANGED <<cfg, open, actor, running, conn, handle, openReply, openSent,
                   execLog, counter, calls, pcloses, eachs, journal, closed>>

\* Pool::close_blocking: the client's close_blocking returns; try_for_each
\* stops at the first Err
PoolCloseBlockingRecv(k) ==
    /\ caller[k].pc = "pcloseB"
    /\ caller[k].idx <= cfg.n
    /\ Len(caller[k].cops) = caller[k].idx
    /\ LET id == caller[k].cops[caller[k].idx]
           r == ClientCloseResult(id) IN
       /\ CloseAnswered(id)
       /\ ops' = [ops EXCEPT ![id].result = r]
       /\ IF r.tag = "Ok"
          THEN /\ caller' = [caller EXCEPT ![k].idx = @ + 1]
               /\ UNCHANGED <<pcloses, eachs, journal, closed>>
          ELSE PoolCloseReturn(k, r)
    /\ UNCHANGED <<cfg, open, actor, running, conn, queue, handle, openReply,
                   openSent, execLog, counter, calls>>

\* Pool::close_blocking: try_for_each reached the end of the clients
PoolCloseBlockingDone(k) ==
    /\ caller[k].pc = "pcloseB"
    /\ caller[k].idx > cfg.n
    /\ PoolCloseReturn(k, OkUnit)
    /\ UNCHANGED <<cfg, open, actor, running, conn, queue, handle, openReply,
                   openSent, ops, execLog, counter, calls>>

\* ------------------------------------------------------------ conn_for_each
\* Pool::conn_for_each(f): f is submitted to every client of the pool, as
\* Client::conn submits it, and the call returns the results in client
\* order once every one of them is in.

\* The clients a conn_for_each call of a pool of n clients submits f to
ForEachClients(n) == 1..n

\* The call starts; it will submit one command per client.
ForEachStart(k) ==
    /\ cfg.kind = "Pool"
    /\ ~cfg.blocking
    /\ CanCall(k, IF cfg.n = 0 THEN 1 ELSE cfg.n)
    /\ caller' = [caller EXCEPT ![k] =
            [IdleCaller EXCEPT !.pc = "each", !.idx = 1,
                               !.aOk = closed.ok, !.aAny = closed.any]]
    /\ UNCHANGED <<cfg, open, actor, running, conn, queue, handle, openReply,
                   openSent, ops, execLog, counter, pcloses, eachs, journal, closed>>

\* f is sent to the next client, as Client::conn sends it:
\* self.conn_tx.send(Command::Func(..))
ForEachSend(k) ==
    /\ caller[k].pc = "each"
    /\ caller[k].idx \in ForEachClients(cfg.n)
    /\ \E val \in {"Ok", "Err"} :
         LET c == caller[k].idx
             id == Len(ops) + 1
             op == NewOp(k, c, "Func", val, caller[k].aOk, caller[k].aAny) IN
         /\ IF SendOk(c)
            THEN /\ ops' = Append(ops, op)
                 /\ queue' = [queue EXCEPT ![c] = Append(@, id)]
            ELSE /\ ops' = Append(ops, [op EXCEPT !.st = "unsent"])
                 /\ queue' = queue
         /\ caller' = [caller EXCEPT ![k].cops = Append(@, id), ![k].idx = @ + 1]
    /\ UNCHANGED <<cfg, open, actor, running, conn, handle, openReply, openSent,
                   execLog, counter, calls, pcloses, eachs, journal, closed>>

\* The result of the conn call on one client, whose command is id
ForEachResult(id) ==
    IF ops[id].st = "unsent" THEN FromSendError
    ELSE ConnResult(ops[id].reply, FALSE)

\* Every per-client call has completed: the results are returned, one per
\* client, in client order.
ForEachJoin(k) ==
    /\ caller[k].pc = "each"
    /\ caller[k].idx \notin ForEachClients(cfg.n)
    /\ \A i \in DOMAIN caller[k].cops : CloseAnswered(caller[k].cops[i])
    /\ ops' = [id \in DOMAIN ops |->
                 IF \E i \in DOMAIN caller[k].cops : caller[k].cops[i] = id
                 THEN [ops[id] EXCEPT !.result = ForEachResult(id)]
                 ELSE ops[id]]
    /\ eachs' = Append(eachs,
                  [caller |-> k, issued |-> caller[k].cops,
                   res |-> [i \in DOMAIN caller[k].cops |->
                               ForEachResult(caller[k].cops[i])]])
    /\ caller' = [caller EXCEPT ![k] = IdleCaller]
    /\ UNCHANGED <<cfg, open, actor, running, conn, queue, handle, openReply,
                   openSent, execLog, counter, calls, pcloses, journal, closed>>

\* The Client and every clone of it are dropped: no Sender of the queue is
\* left. A call borrows its handle, so this happens between calls.
DropAll ==
    /\ open.pc = "ok"
    /\ \A k \in Callers : caller[k].pc = "idle"
    /\ \E c \in Actors : handle[c] = "live"
    /\ handle' = DropHandles(cfg.n)
    /\ UNCHANGED <<cfg, open, actor, running, conn, queue, openReply, openSent,
                   ops, execLog, caller, counter, calls, pcloses, eachs, journal, closed>>

\* What dropping the future of a call does to the command it submitted: the
\* command stays where it is, only the reply receiver is gone.
QueueAfterAbandonCancelled(q, id) == SelectSeq(q, LAMBDA x : x # id)
QueueAfterAbandon(q, id) == q

\* The future of an async conn / conn_mut / close is dropped while it awaits
\* rx: the oneshot Receiver is dropped and the call never returns. (A
\* blocking call cannot be abandoned: its thread is inside rx.recv().)
Abandon(k) ==
    /\ ~cfg.blocking
    /\ caller[k].pc = "wait"
    /\ LET id == caller[k].op IN
       /\ ops' = [ops EXCEPT ![id].result = Abandoned]
       /\ queue' = [queue EXCEPT ![ops[id].actor] = QueueAfterAbandon(@, id)]
    /\ caller' = [caller EXCEPT ![k] = IdleCaller]
    /\ UNCHANGED <<cfg, open, actor, running, conn, handle, openReply, openSent,
                   execLog, counter, calls, pcloses, eachs, journal, closed>>

\* ------------------------------------------------------------ specification
ActorNext ==
    \/ OpenSpawn
    \/ OpenRecvBlocking
    \/ OpenFinish
    \/ \E c \in Actors : ActorCreate(c)
    \/ \E c \in Actors : ActorRecv(c)
    \/ \E c \in Actors : ActorFinishFunc(c)
    \/ \E c \in Actors : ActorFinishShutdown(c)
    \/ \E c \in Actors : ActorExit(c)
    \/ \E c \in Actors : ActorDisconnect(c)
    \/ \E k \in Callers : CallerRecv(k)

\* A program that uses one Client and its clones
ClientNext ==
    \/ ActorNext
    \/ DropAll
    \/ \E k \in Callers : ClientConn(k)
    \/ \E k \in Callers : ClientClose(k)

\* A program that uses one Pool and its clones, and keeps it
PoolNext ==
    \/ ActorNext
    \/ \E k \in Callers : PoolGet(k)
    \/ \E k \in Callers : PoolSend(k)
    \/ \E k \in Callers : PoolCloseStart(k)
    \/ \E k \in Callers : PoolCloseSend(k)
    \/ \E k \in Callers : PoolCloseJoin(k)
    \/ \E k \in Callers : PoolCloseBlockingSend(k)
    \/ \E k \in Callers : PoolCloseBlockingRecv(k)
    \/ \E k \in Callers : PoolCloseBlockingDone(k)

Next == ClientNext \/ PoolNext

Spec == Init /\ [][Next]_vars

ClientInit == Init /\ cfg.kind = "Client"

PoolInit == Init /\ cfg.kind = "Pool"

ClientSpec == ClientInit /\ [][ClientNext]_vars

\* A program that uses one Client and its clones and may drop the futures of
\* its calls
AbandonNext ==
    \/ OpenSpawn
    \/ OpenRecvBlocking
    \/ OpenFinish
    \/ DropAll
    \/ \E c \in Actors : ActorCreate(c)
    \/ \E c \in Actors : ActorRecv(c)
    \/ \E c \in Actors : ActorFinishFunc(c)
    \/ \E c \in Actors : ActorExit(c)
    \/ \E c \in Actors : ActorDisconnect(c)
    \/ \E k \in Callers : ClientConn(k)
    \/ \E k \in Callers : CallerRecv(k)
    \/ \E k \in Callers : Abandon(k)

AbandonSpec == ClientInit /\ [][AbandonNext]_vars

PoolSpec == PoolInit /\ [][PoolNext]_vars

\* A program that uses one Pool for operations on one connection and for
\* operations on every connection, and keeps it open
ForEachNext ==
    \/ OpenSpawn
    \/ OpenRecvBlocking
    \/ OpenFinish
    \/ \E c \in Actors : ActorCreate(c)
    \/ \E c \in Actors : ActorRecv(c)
    \/ \E c \in Actors : ActorFinishFunc(c)
    \/ \E c \in Actors : ActorExit(c)
    \/ \E c \in Actors : ActorDisconnect(c)
    \/ \E k \in Callers : CallerRecv(k)
    \/ \E k \in Callers : PoolGet(k)
    \/ \E k \in Callers : PoolSend(k)
    \/ \E k \in Callers : ForEachStart(k)
    \/ \E k \in Callers : ForEachSend(k)
    \/ \E k \in Callers : ForEachJoin(k)

ForEachSpec == PoolInit /\ [][ForEachNext]_vars

\* Every actor is an OS thread of its own: a thread that can take a step
\* eventually takes one.
\* A program that opens one Client from a builder on which journal_mode
\* may have been set, and uses it
JournalInit ==
    /\ InitState
    /\ cfg.kind = "Client"
    /\ journal \in {[mode |-> m, out |-> [c \in Actors |-> NoOut]] :
                       m \in JournalInputs \cup {NoJournal}}

JournalNext ==
    \/ OpenSpawn
    \/ OpenRecvBlocking
    \/ OpenFinish
    \/ DropAll
    \/ \E c \in Actors : ActorCreate(c)
    \/ \E c \in Actors : ActorRecv(c)
    \/ \E c \in Actors : ActorFinishFunc(c)
    \/ \E c \in Actors : ActorExit(c)
    \/ \E c \in Actors : ActorDisconnect(c)
    \/ \E k \in Callers : ClientConn(k)
    \/ \E k \in Callers : CallerRecv(k)

JournalSpec == JournalInit /\ [][JournalNext]_vars

ActorStep(c) ==
    \/ ActorCreate(c)
    \/ ActorRecv(c)
    \/ ActorFinishFunc(c)
    \/ ActorFinishShutdown(c)
    \/ ActorExit(c)
    \/ ActorDisconnect(c)

ActorFairness == \A c \in Actors : WF_vars(ActorStep(c))

\* A caller whose reply channel is ready is woken: the executor polls the
\* woken task, the blocked thread returns from recv().
CallerFairness == \A k \in Callers : WF_vars(CallerRecv(k))

\* The Client program with its actor thread and its callers scheduled fairly
ClientLiveSpec ==
    ClientInit /\ [][ClientNext]_vars /\ ActorFairness /\ CallerFairness

\* The pool program with its actor threads scheduled fairly
PoolLiveSpec == PoolInit /\ [][PoolNext]_vars /\ ActorFairness

\* The program that drops futures and handles, with its actor thread
\* scheduled fairly
AbandonLiveSpec == ClientInit /\ [][AbandonNext]_vars /\ ActorFairness

\* ------------------------------------------------------------ properties
FuncOps == {id \in DOMAIN ops : ops[id].kind = "Func"}
ShutdownOps == {id \in DOMAIN ops : ops[id].kind = "Shutdown"}

\* The command was appended to its actor's queue (its send succeeded).
Enqueued(id) == ops[id].st # "unsent"

\* The caller of command id has returned from its call.
Returned(id) == ops[id].result \notin {NoResult, Abandoned}

\* What the caller of Func id gets when its own closure ran and was answered.
OwnResult(id) ==
    IF ops[id].val = "Ok" THEN [tag |-> "Ok", v |-> id] ELSE FromRusqlite(id)

\* The positions of the events of command id in the log of actor c
Events(c, ev, id) ==
    {p \in DOMAIN execLog[c] : execLog[c][p] = [ev |-> ev, id |-> id]}

\* C1: at every instant at most one command, Func or Shutdown, is executing
\* on a connection: a command is started only after the one started before
\* it has ended.
C1_OneCommandAtATime ==
    \A c \in Actors :
        /\ Cardinality(running[c]) <= 1
        /\ \A p \in DOMAIN execLog[c] :
              execLog[c][p].ev = "start" /\ p < Len(execLog[c])
                  => execLog[c][p + 1] = [ev |-> "end", id |-> execLog[c][p].id]

\* C1 witness: a command of one caller is executing while a command of
\* another caller waits in the same queue.
C1_Witness ==
    \E c \in Actors : \E id \in running[c] :
        /\ queue[c] # <<>>
        /\ ops[Head(queue[c])].caller # ops[id].caller

\* C2: commands of one actor are executed in the order they were enqueued:
\* when B starts, every command A enqueued before it on that actor has ended.
\* (Command ids are assigned at the send, so id order is enqueue order.)
C2_FifoOrder ==
    \A c \in Actors : \A p \in DOMAIN execLog[c] :
        execLog[c][p].ev = "start" =>
            \A a \in DOMAIN ops :
                (ops[a].actor = c /\ a < execLog[c][p].id /\ Enqueued(a))
                    => \E q \in 1..(p - 1) : execLog[c][q] = [ev |-> "end", id |-> a]

\* C2 witness: two commands of different callers have both been executed, the
\* second having been answered before the caller of the first has returned.
C2_Witness ==
    \E a, b \in DOMAIN ops :
        /\ a < b
        /\ ops[a].actor = ops[b].actor
        /\ ops[a].caller # ops[b].caller
        /\ ops[a].st = "executed"
        /\ ops[b].st = "executed"
        /\ ~Returned(a)

\* No close was ever called on the actor of command id.
NeverClosed(c) == \A s \in ShutdownOps : ops[s].actor # c

\* C3: while no close has been called, every submitted operation is enqueued
\* and never discarded, runs at most once, and its caller returns exactly
\* what its own closure returned after it has run once.
C3_OwnResultOnce ==
    \A id \in FuncOps :
        LET c == ops[id].actor IN
        /\ Cardinality(Events(c, "start", id)) <= 1
        /\ NeverClosed(c) =>
              /\ ops[id].st \in {"queued", "running", "executed"}
              /\ Returned(id) =>
                    /\ ops[id].result = OwnResult(id)
                    /\ Cardinality(Events(c, "start", id)) = 1
                    /\ Cardinality(Events(c, "end", id)) = 1

\* C3 witness: on a pool that was never closed, three operations, two of
\* them on the same connection and by different callers, have returned their
\* own results, a value and an error among them.
C3_Witness ==
    \E a, b \in FuncOps :
        /\ a # b
        /\ ops[a].actor = ops[b].actor
        /\ ops[a].caller # ops[b].caller
        /\ \A c \in Actors : NeverClosed(c)
        /\ ops[a].result = [tag |-> "Ok", v |-> a]
        /\ ops[b].result = FromRusqlite(b)
        /\ \E d \in FuncOps \ {a, b} : ops[d].result = OwnResult(d)

EarlierSuccess(x) ==
    \E s \in ShutdownOps :
        s < x /\ ops[s].actor = ops[x].actor /\ ops[s].reply.tag = "Ok"

\* The operations enqueued on the actor of command s before s
EnqueuedBefore(s) ==
    {x \in FuncOps : x < s /\ ops[x].actor = ops[s].actor /\ Enqueued(x)}

SuccessfulCloses(c) ==
    {s \in ShutdownOps : ops[s].actor = c /\ ops[s].reply.tag = "Ok"}

\* C7: a connection is closed successfully at most once; a close that finds
\* the actor terminated, or whose Shutdown is discarded behind a successful
\* one, returns Ok(()); and a waiting closer is never stuck: it has its
\* answer, or its Shutdown is executing, or it is queued on a live actor.
C7_SecondCloseNoHang ==
    /\ \A c \in Actors : Cardinality(SuccessfulCloses(c)) <= 1
    /\ \A s \in ShutdownOps :
          ops[s].st \in {"unsent", "dropped"} =>
              /\ conn[ops[s].actor] = "closed"
              /\ ops[s].st = "unsent" => Returned(s)
              /\ Returned(s) => ops[s].result = OkUnit
    /\ \A k \in Callers :
          LET s == caller[k].op
              c == ops[s].actor IN
          (caller[k].pc = "wait" /\ ops[s].kind = "Shutdown") =>
              \/ ReplyReady(s)
              \/ s \in running[c]
              \/ /\ \E p \in DOMAIN queue[c] : queue[c][p] = s
                 /\ actor[c] \in {"loop", "returning"}

\* C7 witness: two closes were concurrent; the first closed the connection,
\* the Shutdown of the second was discarded and its caller got Ok(()); a
\* third close, called later, found the queue disconnected and got Ok(()).
C7_Witness ==
    \E s1, s2, s3 \in ShutdownOps :
        /\ ops[s1].reply.tag = "Ok" /\ ops[s1].st = "executed"
        /\ ops[s2].st = "dropped" /\ ops[s2].result = OkUnit
        /\ ops[s3].st = "unsent" /\ ops[s3].result = OkUnit

\* Every Shutdown enqueued before command x on its actor has failed, and
\* there is one.
OnlyFailedClosesBefore(x) ==
    /\ \E s \in ShutdownOps : s < x /\ ops[s].actor = ops[x].actor
    /\ \A s \in ShutdownOps :
          (s < x /\ ops[s].actor = ops[x].actor) => ops[s].reply.tag = "Err"

\* C8, state part: a failed close is reported to its closer as the
\* connection's error; a command submitted after closes that all failed is
\* accepted and not discarded, an operation returns its own result, and a
\* later close is executed as a new attempt.
C8_AfterFailedClose ==
    /\ \A s \in ShutdownOps :
          (ops[s].reply.tag = "Err" /\ Returned(s))
              => ops[s].result = FromRusqlite(ops[s].actor)
    /\ \A x \in DOMAIN ops :
          OnlyFailedClosesBefore(x) =>
              /\ ops[x].st \in {"queued", "running", "executed"}
              /\ Returned(x) =>
                    /\ ops[x].st = "executed"
                    /\ ops[x].kind = "Func" => ops[x].result = OwnResult(x)

\* C8, step part: the step in which a close fails leaves the actor in its
\* loop with the connection open and its queue untouched.
C8_FailedCloseStep ==
    \A s \in ShutdownOps :
        (ops[s].reply = NoReply /\ ops'[s].reply.tag = "Err") =>
            LET c == ops[s].actor IN
            /\ ops'[s].reply = [tag |-> "Err", v |-> c]
            /\ actor'[c] = "loop"
            /\ conn[c] = "open"
            /\ conn'[c] = "open"
            /\ queue'[c] = queue[c]

C9_ShutdownIssuedToAll ==
    \A p \in DOMAIN pcloses : Len(pcloses[p].issued) = cfg.n

\* C10: when create_conn fails, the result is delivered once, it is the
\* error, no Client exists for the actor, the thread is returning or has
\* returned and never ran a command, and the open call fails with that error.
C10_CreateFailure ==
    /\ \A c \in Actors :
          /\ openSent[c] <= 1
          /\ openReply[c].tag = "Err" =>
                /\ openSent[c] = 1
                /\ handle[c] = "none"
                /\ actor[c] \in {"returning", "exited"}
                /\ conn[c] = "none"
                /\ execLog[c] = <<>>
                /\ queue[c] = <<>>
                /\ \A id \in DOMAIN ops : ops[id].actor # c
    /\ open.pc = "ok" => \A c \in 1..cfg.n : openReply[c].tag = "Ok"
    /\ open.pc = "failed" =>
          \E c \in 1..cfg.n : openReply[c].tag = "Err" /\ open.res = openReply[c]

\* C10 witness: the open of a Client failed and its thread has returned.
C10_Witness ==
    /\ cfg.kind = "Client"
    /\ open.pc = "failed"
    /\ open.res = [tag |-> "Err", v |-> 1]
    /\ actor[1] = "exited"

\* The actors of the pool that are not running any more (or never were)
Terminated(c) == actor[c] \in {"unspawned", "exited"}

\* C11: when the open of a pool has failed, the error returned is the error
\* of one of its connections, no Pool exists (no Client handle is left and no
\* command was ever submitted), and from then on every actor thread of the
\* attempted pool terminates and stays terminated, with no connection left
\* open.
C11_FailedOpenLeavesNoActor ==
    /\ [](open.pc = "failed" =>
            /\ \E c \in 1..cfg.n : openReply[c].tag = "Err" /\ open.res = openReply[c]
            /\ \A c \in Actors : handle[c] # "live"
            /\ ops = <<>>)
    /\ (open.pc = "failed" ~>
            [](\A c \in Actors : Terminated(c) /\ conn[c] # "open"))

\* C11 witness: the open of a pool of two connections failed although one of
\* them did open; that connection was dropped and its thread has returned.
C11_Witness ==
    /\ cfg.kind = "Pool"
    /\ cfg.n = 2
    /\ open.pc = "failed"
    /\ \E c \in Actors :
          openReply[c] = OkUnit /\ actor[c] = "exited" /\ conn[c] = "dropped"
    /\ \A c \in Actors : Terminated(c)

\* The commands appended to ops by the step
Submitted == (DOMAIN ops') \ (DOMAIN ops)

\* C12, state part: an operation refused at the send has returned
\* Error::Closed, is in no queue and was never started.
C12_RefusedNeverRuns ==
    \A id \in FuncOps :
        ops[id].st = "unsent" =>
            /\ ops[id].result = ErrClosed
            /\ \A p \in DOMAIN queue[ops[id].actor] : queue[ops[id].actor][p] # id
            /\ Events(ops[id].actor, "start", id) = {}

\* C12, step part: a conn call on an actor that has terminated enqueues
\* nothing, starts nothing, is refused with Error::Closed in the step of the
\* call, and leaves its caller not waiting.
C12_ClosedAtSubmissionStep ==
    \A c \in Actors :
        actor[c] = "exited" =>
            /\ queue[c] = <<>> /\ queue'[c] = <<>>
            /\ execLog'[c] = execLog[c]
            /\ \A id \in Submitted :
                  (ops'[id].actor = c /\ ops'[id].kind = "Func") =>
                      /\ ops'[id].st = "unsent"
                      /\ ops'[id].result = ErrClosed
                      /\ caller'[ops'[id].caller].pc = "idle"

\* C12: a conn call made after the actor has terminated fails with
\* Error::Closed at submission: nothing is enqueued, the closure never runs
\* and the caller does not wait.
C12_ClosedAtSubmission ==
    [](C12_RefusedNeverRuns) /\ [][C12_ClosedAtSubmissionStep]_vars

\* C12 witness: an operation was called on a Client whose actor thread had
\* returned; it was refused at the send and its caller has Error::Closed.
C12_Witness ==
    \E id \in FuncOps :
        /\ ops[id].st = "unsent"
        /\ ops[id].result = ErrClosed
        /\ actor[ops[id].actor] = "exited"
        /\ caller[ops[id].caller].pc = "idle"

\* The operations whose caller dropped the future of the call
AbandonedOps == {id \in FuncOps : ops[id].result = Abandoned}

\* The command is in the queue of its actor
InQueue(id) == \E p \in DOMAIN queue[ops[id].actor] : queue[ops[id].actor][p] = id

\* C13: an operation whose caller abandoned the wait was enqueued and stays
\* a command of its actor: it is never discarded, it waits in the queue until
\* it is started, it runs once to completion, nobody receives its reply, and
\* the commands enqueued after it start only after it has ended and return
\* their own results.
C13_AbandonedStillRuns ==
    \A a \in AbandonedOps :
        LET c == ops[a].actor IN
        /\ ops[a].st \in {"queued", "running", "executed"}
        /\ ops[a].st = "queued" => InQueue(a)
        /\ ops[a].st = "running" => a \in running[c]
        /\ ops[a].st = "executed" =>
              /\ Cardinality(Events(c, "start", a)) = 1
              /\ Cardinality(Events(c, "end", a)) = 1
              /\ ops[a].reply = FuncReply(a)
        /\ \A k \in Callers : ~(caller[k].pc = "wait" /\ caller[k].op = a)
        /\ \A b \in FuncOps :
              (b > a /\ ops[b].actor = c) =>
                  /\ \A p \in Events(c, "start", b) :
                        \E q \in 1..(p - 1) : execLog[c][q] = [ev |-> "end", id |-> a]
                  /\ Returned(b) => ops[b].result = OwnResult(b)

\* C13 witness: an operation is executing although its caller has abandoned
\* it while it was not answered, and an operation called afterwards by the
\* same caller waits behind it.
C13_Witness ==
    \E a \in AbandonedOps : \E b \in FuncOps :
        /\ a \in running[ops[a].actor]
        /\ ops[a].reply = NoReply
        /\ b > a
        /\ ops[b].caller = ops[a].caller
        /\ InQueue(b)
        /\ caller[ops[b].caller].pc = "wait"

\* The operations whose closure returns an error
FailingOps == {id \in FuncOps : ops[id].val = "Err"}

\* C14, state part: the error of a failing operation that ran is what its
\* own caller returns, and nobody else returns it; on a connection on which
\* no close was called, the operations enqueued before and after a failing
\* one are never discarded and return their own results.
C14_FailureIsLocal ==
    \A f \in FailingOps :
        LET c == ops[f].actor IN
        /\ ops[f].st = "executed" =>
              /\ ops[f].reply = [tag |-> "Err", v |-> f]
              /\ Returned(f) => ops[f].result = FromRusqlite(f)
        /\ \A b \in FuncOps : b # f => ops[b].result # FromRusqlite(f)
        /\ NeverClosed(c) =>
              \A b \in FuncOps :
                  (b # f /\ ops[b].actor = c) =>
                      /\ ops[b].st \in {"queued", "running", "executed"}
                      /\ Returned(b) => ops[b].result = OwnResult(b)

\* C14, step part: the step in which a failing operation ends leaves the
\* actor in its loop, with its connection and its queue as they were.
C14_FailureStep ==
    \A f \in FailingOps :
        (ops[f].st = "running" /\ ops'[f].st = "executed") =>
            LET c == ops[f].actor IN
            /\ actor[c] = "loop" /\ actor'[c] = "loop"
            /\ conn'[c] = conn[c] /\ conn[c] = "open"
            /\ queue'[c] = queue[c]
            /\ handle'[c] = handle[c]

IdleConn(d) ==
    /\ d \in 1..cfg.n
    /\ actor[d] = "loop"
    /\ running[d] = {}
    /\ queue[d] = <<>>

\* C15: an operation submitted through the pool waits in a queue behind an
\* executing operation of another caller only when no connection of the pool
\* is idle.
C15_DelayedOnlyWhenSaturated ==
    cfg.kind = "Pool" =>
        \A x \in FuncOps :
            (/\ InQueue(x)
             /\ \E r \in running[ops[x].actor] :
                    ops[r].kind = "Func" /\ ops[r].caller # ops[x].caller)
                => ~\E d \in Actors : IdleConn(d)

\* The actor threads that exist: spawned and not yet returned
LiveActors == {c \in Actors : actor[c] \in {"creating", "loop", "returning"}}

\* The commands executing at this instant, on any connection
Executing == UNION {running[c] : c \in Actors}

\* C16, state part: a pool of n connections never has more than n live
\* actors, more than n open connections or more than n commands executing
\* at once, and never spawns an actor beyond index n.
C16_AtMostNumConns ==
    cfg.kind = "Pool" =>
        /\ Cardinality(LiveActors) <= cfg.n
        /\ Cardinality({c \in Actors : conn[c] = "open"}) <= cfg.n
        /\ Cardinality(Executing) <= cfg.n
        /\ \A c \in Actors : c > cfg.n => actor[c] = "unspawned"

\* C16, step part: once the open has returned no actor is added, and an
\* actor of an opened pool goes away only after a Shutdown has closed its
\* connection.
C16_CountStep ==
    cfg.kind = "Pool" =>
        /\ open.pc \in {"ok", "failed"} => LiveActors' \subseteq LiveActors
        /\ open.pc = "ok" =>
              \A c \in LiveActors \ LiveActors' :
                  /\ conn[c] = "closed"
                  /\ SuccessfulCloses(c) # {}

C17_ResultOrClosed ==
    \A id \in FuncOps :
        Returned(id) => ops[id].result \in {OwnResult(id), ErrClosed}

\* C17: no caller waits for ever. Every caller that waits for a reply,
\* whether its command is queued before or behind a Shutdown or is the
\* Shutdown itself, eventually returns, with its operation's result or
\* Error::Closed (operations terminate and threads are scheduled fairly).
\* The program makes finitely many calls, so this is: from some point on no
\* caller is waiting.
C17_NoCallerHangs ==
    /\ [](C17_ResultOrClosed)
    /\ <>[](\A k \in Callers : caller[k].pc # "wait")

\* C17 witness: an operation called before any close had returned was queued
\* behind a Shutdown that closed the connection; it was discarded and its
\* caller woke with Error::Closed.
C17_Witness ==
    \E x \in FuncOps : \E s \in ShutdownOps :
        /\ s < x
        /\ ~ops[x].aAny
        /\ ops[s].reply.tag = "Ok"
        /\ ops[x].st = "dropped"
        /\ ops[x].result = ErrClosed
        /\ caller[ops[x].caller].pc = "idle"

\* What the async Pool::close leaves behind when it has returned: every
\* connection is closed, except those whose close, issued by this call,
\* failed; and the call returns the first of these failures, or Ok(()).
AsyncCloseOutcome(p) ==
    /\ \A c \in 1..cfg.n :
          \/ conn[c] = "closed"
          \/ \E i \in DOMAIN pcloses[p].issued :
                LET id == pcloses[p].issued[i] IN
                ops[id].actor = c /\ ops[id].reply.tag = "Err"
    /\ pcloses[p].res.tag = "Ok" =>
          \A i \in DOMAIN pcloses[p].issued : ops[pcloses[p].issued[i]].reply.tag # "Err"

\* C18: the blocking variants behave as the async ones: a pool close that
\* has returned, close_blocking like close, has the outcome of the async
\* close, in its result and in the state it leaves every actor in.
C18_BlockingSameAsAsync ==
    \A p \in DOMAIN pcloses : AsyncCloseOutcome(p)

\* The connections whose close, issued by pool close call p, failed
FailedCloses(p) ==
    {ops[pcloses[p].issued[i]].actor : i \in
        {j \in DOMAIN pcloses[p].issued : ops[pcloses[p].issued[j]].reply.tag = "Err"}}

\* The connections whose close failure the result of a pool close carries:
\* Result<(), Error> holds one rusqlite error or none.
ErrorsReported(res) == IF res.tag = "Rusqlite" THEN {res.v} ELSE {}

\* C19: the result a pool close returns carries the failure of every
\* connection that failed to close during it.
C19_AllCloseFailuresReported ==
    \A p \in DOMAIN pcloses :
        FailedCloses(p) \subseteq ErrorsReported(pcloses[p].res)

\* Every Client handle of actor c was dropped and no Shutdown was ever sent
\* to it.
DroppedUnclosed(c) == handle[c] = "dropped" /\ NeverClosed(c)

\* The commands that were appended to the queue of actor c
EnqueuedOn(c) == {id \in DOMAIN ops : ops[id].actor = c /\ Enqueued(id)}

\* C20, state part: after the handles were dropped with no Shutdown sent, no
\* queued command is discarded, and when the thread has terminated every
\* command that had been queued was executed, the queue is empty, the
\* connection went with the thread and no Shutdown was processed.
C20_QueuedThenExit ==
    \A c \in Actors :
        DroppedUnclosed(c) =>
            /\ actor[c] \in {"loop", "exited"}
            /\ \A id \in EnqueuedOn(c) : ops[id].st \in {"queued", "running", "executed"}
            /\ actor[c] = "exited" =>
                  /\ \A id \in EnqueuedOn(c) :
                        /\ ops[id].st = "executed"
                        /\ Cardinality(Events(c, "end", id)) = 1
                  /\ queue[c] = <<>>
                  /\ running[c] = {}
                  /\ conn[c] = "dropped"
                  /\ \A p \in DOMAIN execLog[c] : ops[execLog[c][p].id].kind = "Func"

\* C20: when every handle of an actor has been dropped without a Shutdown,
\* the actor executes what is queued and then its thread terminates, for
\* good, without processing a Shutdown (the thread is scheduled fairly and
\* the operations terminate).
C20_DropDrainsThenExits ==
    /\ [](C20_QueuedThenExit)
    /\ <>[](\A c \in Actors : DroppedUnclosed(c) => actor[c] = "exited")

\* C20 witness: the handles are dropped, no Shutdown was sent, and the actor
\* is executing one of the commands that were queued while another is still
\* waiting in the queue.
C20_Witness ==
    \E c \in Actors :
        /\ DroppedUnclosed(c)
        /\ actor[c] = "loop"
        /\ running[c] # {}
        /\ queue[c] # <<>>

C22_NothingRunsAfterClose ==
    \A s \in ShutdownOps :
        ops[s].reply.tag = "Ok" =>
            LET c == ops[s].actor IN
            /\ conn[c] = "closed"
            /\ actor[c] \in {"returning", "exited"}
            /\ running[c] = {}
            /\ execLog[c][Len(execLog[c])] = [ev |-> "end", id |-> s]
            /\ \A x \in DOMAIN ops :
                  (x > s /\ ops[x].actor = c) =>
                      /\ Events(c, "start", x) = {}
                      /\ ops[x].st \in {"queued", "dropped", "unsent"}
                      /\ ops[x].st = "queued" => actor[c] = "returning"
                      /\ (ops[x].kind = "Func" /\ Returned(x)) =>
                            ops[x].result = ErrClosed

\* C22 witness: a Shutdown closed the connection; an operation that was
\* queued behind it was discarded and one submitted after the thread had
\* returned was refused, and both callers got Error::Closed.
C22_Witness ==
    \E s \in ShutdownOps : \E x, y \in FuncOps :
        /\ ops[s].reply.tag = "Ok"
        /\ s < x /\ x < y
        /\ ops[x].actor = ops[s].actor /\ ops[y].actor = ops[s].actor
        /\ ops[x].st = "dropped" /\ ops[x].result = ErrClosed
        /\ ops[y].st = "unsent" /\ ops[y].result = ErrClosed
        /\ actor[ops[s].actor] = "exited"

\* The number of pool operations dispatched so far to connection c: those
\* submitted and those whose caller holds the client and is about to send
Dispatched(c) ==
    Cardinality({id \in FuncOps : ops[id].actor = c})
        + Cardinality({k \in Callers : caller[k].pc = "send" /\ caller[k].tgt = c})

\* C23, state part: the operations dispatched to connection c are as many
\* as there are counter values i, among those handed out so far, with
\* i mod num_conns = c - 1; so two connections differ by at most 1.
C23_Balanced ==
    (cfg.kind = "Pool" /\ cfg.n > 0) =>
        /\ \A c \in 1..cfg.n :
              Dispatched(c) =
                  Cardinality({i \in 0..(counter - 1) : i % cfg.n = c - 1})
        /\ \A c, d \in 1..cfg.n : Dispatched(c) - Dispatched(d) <= 1
        /\ \A c \in Actors : c > cfg.n => Dispatched(c) = 0

\* C23, step part: a step that takes a counter value takes the current one
\* and adds 1, for exactly one call, which then holds client
\* (value mod num_conns); and a call sends its operation to the client it
\* holds.
C23_DispatchStep ==
    /\ counter' # counter =>
          /\ counter' = counter + 1
          /\ \E k \in Callers :
                /\ caller[k].pc = "idle"
                /\ cfg.n > 0 =>
                      /\ caller'[k].pc = "send"
                      /\ caller'[k].tgt = (counter % cfg.n) + 1
                /\ \A j \in Callers \ {k} : caller'[j] = caller[j]
    /\ \A k \in Callers :
          (caller[k].pc = "send" /\ caller'[k].pc # "send") =>
              /\ Len(ops') = Len(ops) + 1
              /\ ops'[Len(ops')].actor = caller[k].tgt
              /\ ops'[Len(ops')].caller = k

\* C23: pool dispatch is round-robin on an atomically incremented counter.
C23_RoundRobin == [](C23_Balanced) /\ [][C23_DispatchStep]_vars

\* C23 witness: on a pool of two connections three counter values were
\* handed out; two calls hold their clients at the same time, one each, and
\* connection 1 got two operations and connection 2 one.
C23_Witness ==
    /\ cfg.kind = "Pool"
    /\ cfg.n = 2
    /\ counter = 3
    /\ Dispatched(1) = 2
    /\ Dispatched(2) = 1
    /\ \E j, k \in Callers :
          /\ caller[j].pc = "send" /\ caller[k].pc = "send"
          /\ caller[j].tgt # caller[k].tgt

\* C24: on every pool that open returned successfully, whatever num_conns
\* was configured (0 included), a conn / conn_mut call selects an existing
\* client and returns a Result: no call panics, and a call that holds a
\* client holds one of the pool's clients.
C24_GetNeverPanics ==
    (cfg.kind = "Pool" /\ open.pc = "ok") =>
        \A k \in Callers :
            /\ caller[k].pc # "panicked"
            /\ caller[k].pc = "send" => caller[k].tgt \in 1..cfg.n

\* C25: when a journal mode is configured, a Client is exposed, and open
\* returns it, only if the database reported the requested mode, and the
\* connection of every such Client is in that mode; an open that failed
\* with Error::PragmaUpdate carries the requested and the differing
\* reported mode, exposed no Client, kept no connection and its thread is
\* at or past its return.
C25_JournalModeChecked ==
    journal.mode # NoJournal =>
        \A c \in Actors :
            /\ journal.out[c] \in {NoOut, SqliteName(journal.mode)}
            /\ (handle[c] # "none" \/ openReply[c].tag = "Ok"
                    \/ conn[c] # "none" \/ actor[c] = "loop") =>
                  journal.out[c] = SqliteName(journal.mode)
            /\ (open.pc = "ok" /\ c \in 1..cfg.n) =>
                  journal.out[c] = SqliteName(journal.mode)
            /\ IsPragmaUpdate(openReply[c]) =>
                  /\ openReply[c].pragma.exp = AsStr(journal.mode)
                  /\ openReply[c].pragma.got \in
                        {SqliteName(m) : m \in DbModes \ {journal.mode}}
                  /\ handle[c] = "none"
                  /\ conn[c] = "none"
                  /\ actor[c] \in {"returning", "exited"}
                  /\ open.pc # "ok"
                  /\ open.pc = "failed" => open.res = openReply[c]

\* C25 witness: with journal_mode(Wal) the database reported "memory", open
\* failed with Error::PragmaUpdate and the thread has exited.
C25_Witness ==
    /\ journal.mode = "Wal"
    /\ open.pc = "failed"
    /\ IsPragmaUpdate(open.res)
    /\ open.res.pragma.got = SqliteName("Memory")
    /\ actor[1] = "exited"

====
